---- MODULE Spec2Model ----
(***************************************************************************)
(* Model of the utility surface of react-spreadsheet (util.ts): the        *)
(* evaluator, selection normalisation, CSV export, sizing helper,          *)
(* clipboard read and the numeric range builder.  The functions are pure;  *)
(* every action is one call: it draws the arguments from bounded sets and  *)
(* records the call (op, inp) and what it returned (out).  range() is a    *)
(* loop and is modelled one iteration per step.                            *)
(*                                                                         *)
(* The Point, PointRange, Matrix and Formula modules that util.ts imports  *)
(* are modelled from their documented contracts.                           *)
(*                                                                         *)
(* Text is a sequence of one-character strings, so that concatenation and  *)
(* prefix tests are computed and not assumed.                              *)
(***************************************************************************)
EXTENDS Integers, Sequences, FiniteSets, TLC

VARIABLES op, inp, out, parseLog, pc, element, array

vars == <<op, inp, out, parseLog, pc, element, array>>

-----------------------------------------------------------------------------
(* Bounds *)

MaxRows == 2
MaxCols == 2
MaxCoord == 3
MaxLabels == 3
MaxAbs == 2
MaxArrayLen == 5

-----------------------------------------------------------------------------
(* JavaScript values *)

Undefined == [t |-> "undefined"]
Null == [t |-> "null"]
Str(s) == [t |-> "string", v |-> s]
Num(n) == [t |-> "number", v |-> n]
Bool(b) == [t |-> "boolean", v |-> b]

\* objects (points, cells, arrays, clipboard payloads) are always truthy
Truthy(x) ==
  IF "t" \notin DOMAIN x THEN TRUE
  ELSE CASE x.t = "undefined" -> FALSE
         [] x.t = "null" -> FALSE
         [] x.t = "string" -> Len(x.v) > 0
         [] x.t = "number" -> x.v /= 0
         [] x.t = "boolean" -> x.v
         [] OTHER -> TRUE

\* a || b
Or(a, b) == IF Truthy(a) THEN a ELSE b

Digit(d) == <<"0", "1", "2", "3", "4", "5", "6", "7", "8", "9">>[d + 1]

RECURSIVE NatToText(_)
NatToText(n) == IF n < 10 THEN <<Digit(n)>> ELSE NatToText(n \div 10) \o <<Digit(n % 10)>>

\* String(x)
String(x) ==
  CASE x.t = "undefined" -> <<"u", "n", "d", "e", "f", "i", "n", "e", "d">>
    [] x.t = "null" -> <<"n", "u", "l", "l">>
    [] x.t = "string" -> x.v
    [] x.t = "number" -> IF x.v < 0 THEN <<"-">> \o NatToText(0 - x.v) ELSE NatToText(x.v)
    [] x.t = "boolean" -> IF x.v THEN <<"t", "r", "u", "e">> ELSE <<"f", "a", "l", "s", "e">>

Min(a, b) == IF a < b THEN a ELSE b
Max(a, b) == IF a > b THEN a ELSE b
Abs(a) == IF a < 0 THEN 0 - a ELSE a
Sign(a) == IF a < 0 THEN 0 - 1 ELSE IF a > 0 THEN 1 ELSE 0

-----------------------------------------------------------------------------
(* Point *)

Pt(r, c) == [row |-> r, column |-> c]
ORIGIN == Pt(0, 0)
PointIsEqual(a, b) == a.row = b.row /\ a.column = b.column

(* PointRange *)

PointRangeCreate(a, b) ==
  [start |-> Pt(Min(a.row, b.row), Min(a.column, b.column)),
   end |-> Pt(Max(a.row, b.row), Max(a.column, b.column))]

Clamp(x, lo, hi) == Max(lo, Min(x, hi))

ClampPoint(p, bounds) ==
  Pt(Clamp(p.row, bounds.start.row, bounds.end.row),
     Clamp(p.column, bounds.start.column, bounds.end.column))

PointRangeMask(range, bounds) ==
  [start |-> ClampPoint(range.start, bounds), end |-> ClampPoint(range.end, bounds)]

\* row-major: rows outer, columns inner
PointRangeIterate(range) ==
  LET w == range.end.column - range.start.column + 1
      h == range.end.row - range.start.row + 1
  IN [i \in 1..(w * h) |->
        Pt(range.start.row + ((i - 1) \div w), range.start.column + ((i - 1) % w))]

\* a Selected is a tagged variant; only the "range" variant carries a PointRange
PointRangeIs(selected) == selected.kind = "range"
RangeSelected(r) == [kind |-> "range", range |-> r]

-----------------------------------------------------------------------------
(* Matrix: sparse, a function from the present points to their entries *)

MatrixGet(p, m) == IF p \in DOMAIN m THEN m[p] ELSE Undefined

SetMax(S) == CHOOSE x \in S : \A y \in S : y <= x

MatrixMaxPoint(m) ==
  IF DOMAIN m = {} THEN ORIGIN
  ELSE Pt(1 + SetMax({p.row : p \in DOMAIN m}), 1 + SetMax({p.column : p \in DOMAIN m}))

MatrixGetSize(m) == [rows |-> MatrixMaxPoint(m).row, columns |-> MatrixMaxPoint(m).column]

MatrixSlice(s, e, m) ==
  LET kept == {p \in DOMAIN m : /\ s.row <= p.row /\ p.row <= e.row
                                /\ s.column <= p.column /\ p.column <= e.column}
  IN [q \in {Pt(p.row - s.row, p.column - s.column) : p \in kept} |->
        m[Pt(q.row + s.row, q.column + s.column)]]

\* the positions Matrix.map visits: the whole bounding box, absent entries included
MatrixBox(m) ==
  {Pt(r, c) : r \in 0..(MatrixGetSize(m).rows - 1), c \in 0..(MatrixGetSize(m).columns - 1)}

RECURSIVE JoinFields(_, _, _, _)
JoinFields(m, r, c, columns) ==
  IF c >= columns THEN <<>>
  ELSE (IF c > 0 THEN <<"\t">> ELSE <<>>)
       \o (IF Pt(r, c) \in DOMAIN m THEN String(m[Pt(r, c)]) ELSE <<>>)
       \o JoinFields(m, r, c + 1, columns)

RECURSIVE JoinRows(_, _, _, _)
JoinRows(m, r, rows, columns) ==
  IF r >= rows THEN <<>>
  ELSE (IF r > 0 THEN <<"\n">> ELSE <<>>)
       \o JoinFields(m, r, 0, columns)
       \o JoinRows(m, r + 1, rows, columns)

MatrixJoin(m) == JoinRows(m, 0, MatrixGetSize(m).rows, MatrixGetSize(m).columns)

-----------------------------------------------------------------------------
(* Formula *)

FORMULA_VALUE_PREFIX == "="

isFormulaValue(value) ==
  value.t = "string" /\ Len(value.v) > 0 /\ Head(value.v) = FORMULA_VALUE_PREFIX

extractFormula(value) == Tail(value.v)

-----------------------------------------------------------------------------
(* util.ts *)

Cell(v) == [t |-> "cell", value |-> v]

\* bug: compares the row only
isActive_rowOnly(active, point) == IF Truthy(active) THEN point.row = active.row ELSE FALSE

isActive(active, point) == IF Truthy(active) THEN PointIsEqual(point, active) ELSE FALSE

\* bug: the event payload is consulted before the global accessor
readTextFromClipboard_eventFirst(window, event) ==
  IF Truthy(event.clipboardData) /\ event.clipboardData.hasGetData
    THEN event.clipboardData.text
  ELSE IF Truthy(window.clipboardData) /\ window.clipboardData.hasGetData
    THEN window.clipboardData.text
  ELSE <<>>

\* window.clipboardData / event.clipboardData: absent, or an object that may
\* or may not expose getData and holds one plain-text payload
readTextFromClipboard(window, event) ==
  IF Truthy(window.clipboardData) /\ window.clipboardData.hasGetData
    THEN window.clipboardData.text
  ELSE IF Truthy(event.clipboardData) /\ event.clipboardData.hasGetData
    THEN event.clipboardData.text
  ELSE <<>>

isFormulaCell(cell) == isFormulaValue(cell.value)

\* bug: the raw value, marker included, is handed to the parser
getFormulaComputedValue_rawValue(cell, formulaParser) ==
  LET formula == cell.value.v
      parsed == formulaParser[formula]
  IN [ret |-> Or(parsed.error, parsed.result), calls |-> <<formula>>]

\* formulaParser is the injected capability: a function from the expression
\* text to the outcome {result, error}; calls records each parse() invocation
getFormulaComputedValue(cell, formulaParser) ==
  LET formula == extractFormula(cell.value)
      parsed == formulaParser[formula]
  IN [ret |-> Or(parsed.error, parsed.result), calls |-> <<formula>>]

getComputedValue(cell, formulaParser) ==
  IF cell.t = "undefined" THEN [ret |-> Null, calls |-> <<>>]
  ELSE IF isFormulaCell(cell) THEN getFormulaComputedValue(cell, formulaParser)
  ELSE [ret |-> cell.value, calls |-> <<>>]

getMatrixRange(data) == PointRangeCreate(ORIGIN, MatrixMaxPoint(data))

\* bug: the range is returned without masking
normalizeSelected_unmasked(selected, data) == selected

\* bug: the exclusive corner is "corrected" on the masked result, shrinking it
normalizeSelected_shrink(selected, data) ==
  LET dataRange == getMatrixRange(data)
      masked == PointRangeMask(selected.range, dataRange)
  IN IF PointRangeIs(selected)
       THEN RangeSelected(PointRangeCreate(masked.start,
              Pt(Max(0, masked.end.row - 1), Max(0, masked.end.column - 1))))
       ELSE selected

normalizeSelected(selected, data) ==
  LET dataRange == getMatrixRange(data)
  IN IF PointRangeIs(selected)
       THEN RangeSelected(PointRangeMask(selected.range, dataRange))
       ELSE selected

\* bug: the last column of the range is left out
getSelectedPoints_exclusiveEnd(selected) ==
  IF PointRangeIs(selected)
    THEN PointRangeIterate([start |-> selected.range.start,
                            end |-> Pt(selected.range.end.row, selected.range.end.column - 1)])
    ELSE <<>>

getSelectedPoints(selected) ==
  IF PointRangeIs(selected) THEN PointRangeIterate(selected.range) ELSE <<>>

\* (cell) => cell?.value || ""
CellValueOrEmpty(cell) ==
  Or(IF cell.t = "undefined" THEN Undefined ELSE cell.value, Str(<<>>))

getCSV(data) ==
  LET valueMatrix == [p \in MatrixBox(data) |-> CellValueOrEmpty(MatrixGet(p, data))]
  IN MatrixJoin(valueMatrix)

getRangeFromMatrix(range, matrix) == MatrixSlice(range.start, range.end, matrix)

getSelectedCSV(selected, data) ==
  IF ~PointRangeIs(selected) THEN <<>>
  ELSE getCSV(getRangeFromMatrix(selected.range, data))

\* bug: a supplied label array replaces the data size instead of extending it
calculateSpreadsheetSize_labelsOnly(data, rowLabels, columnLabels) ==
  LET size == MatrixGetSize(data)
  IN [rows |-> IF Truthy(rowLabels) THEN Len(rowLabels.v) ELSE size.rows,
      columns |-> IF Truthy(columnLabels) THEN Len(columnLabels.v) ELSE size.columns]

\* an omitted label array is Undefined; a supplied one is [t |-> "array", v |-> labels]
calculateSpreadsheetSize(data, rowLabels, columnLabels) ==
  LET size == MatrixGetSize(data)
  IN [rows |-> IF Truthy(rowLabels) THEN Max(size.rows, Len(rowLabels.v)) ELSE size.rows,
      columns |-> IF Truthy(columnLabels) THEN Max(size.columns, Len(columnLabels.v))
                  ELSE size.columns]

-----------------------------------------------------------------------------
(* Inputs *)

GridPoints == {Pt(r, c) : r \in 0..(MaxRows - 1), c \in 0..(MaxCols - 1)}
Points == {Pt(r, c) : r \in 0..MaxCoord, c \in 0..MaxCoord}
Ranges == {PointRangeCreate(a, b) : a \in Points, b \in Points}

\* Matrix<unknown>: only which entries are present matters
ShapeMatrices == UNION {[S -> {Num(1)}] : S \in SUBSET GridPoints}

NonRangeSelections ==
  {[kind |-> "empty"], [kind |-> "table"]}
    \cup {[kind |-> k, start |-> a, end |-> b] :
            k \in {"rows", "columns"}, a \in 0..MaxCoord, b \in 0..MaxCoord}
Selections == {RangeSelected(r) : r \in Ranges} \cup NonRangeSelections

ActivePoints == Points \cup {Null, Undefined}

Text_hello == <<"h", "i">>
Text_formula == <<"=", "1", "+", "1">>
Text_error == <<"#", "E", "R", "R", "O", "R", "!">>

EvalCells ==
  {Undefined}
    \cup {Cell(v) : v \in {Str(Text_hello), Str(Text_formula), Str(<<>>), Num(0), Num(7),
                           Bool(FALSE), Undefined}}

\* what parse() may hand back: {result: r}, {error: e}, and both fields set
\* with the unused one null
Outcome(r, e) == [result |-> r, error |-> e]
ParserResults == {Num(2), Num(0), Bool(FALSE), Str(<<>>), Str(<<"o", "k">>)}
ParserErrors == {Str(Text_error), Str(<<>>)}
ParserOutcomes ==
  {Outcome(r, Undefined) : r \in ParserResults}
    \cup {Outcome(Undefined, e) : e \in ParserErrors}
    \cup {Outcome(Num(2), Null), Outcome(Null, Str(Text_error))}
ParserInputs == {Tail(Text_formula), Text_formula}
Parsers == [ParserInputs -> ParserOutcomes]

\* Matrix<CellBase> over a 2x2 grid: each entry is absent, or a cell holding a
\* literal text (a, b / c, d by position), a formula text, or the number 0
CsvPoints == {Pt(r, c) : r \in 0..1, c \in 0..1}
Letter(p) == <<"a", "b", "c", "d">>[2 * p.row + p.column + 1]
CsvCellAt(p, k) ==
  Cell(CASE k = "text" -> Str(<<Letter(p)>>)
         [] k = "formula" -> Str(Text_formula)
         [] k = "zero" -> Num(0))
CsvMatrices ==
  UNION {{[p \in S |-> CsvCellAt(p, kinds[p])] : kinds \in [S -> {"text", "formula", "zero"}]} :
           S \in SUBSET CsvPoints}
\* no selection, or a range with corners on the grid or one past it
CsvSelections ==
  {[kind |-> "empty"]}
    \cup {RangeSelected(PointRangeCreate(a, b)) :
            a \in (CsvPoints \cup {Pt(2, 2)}), b \in (CsvPoints \cup {Pt(2, 2)})}

Labels(n) == [t |-> "array", v |-> [i \in 1..n |-> "label"]]
LabelArrays == {Undefined} \cup {Labels(n) : n \in 0..MaxLabels}

ClipboardTexts == {<<>>, <<"w">>, <<"e">>}
ClipboardDatas ==
  {Undefined, Null} \cup [hasGetData : BOOLEAN, text : ClipboardTexts]

-----------------------------------------------------------------------------
(* State machine *)

None == [t |-> "none"]

Init ==
  /\ op = "init"
  /\ inp = None
  /\ out = None
  /\ parseLog = <<>>
  /\ pc = "idle"
  /\ element = 0
  /\ array = <<>>

\* single-threaded: a call starts only when no other call is in progress
Idle == op = "init"

Returned(name, args, result) ==
  /\ op' = name
  /\ inp' = args
  /\ out' = result
  /\ parseLog' = <<>>
  /\ pc' = "idle"
  /\ element' = 0
  /\ array' = <<>>

IsActive ==
  /\ Idle
  /\ \E active \in ActivePoints, point \in Points :
    Returned("isActive", [active |-> active, point |-> point], isActive(active, point))

ReadTextFromClipboard ==
  /\ Idle
  /\ \E w \in ClipboardDatas, e \in ClipboardDatas :
    LET window == [clipboardData |-> w]
        event == [clipboardData |-> e]
    IN Returned("readTextFromClipboard", [window |-> window, event |-> event],
                readTextFromClipboard(window, event))

GetComputedValue ==
  /\ Idle
  /\ \E cell \in EvalCells, formulaParser \in Parsers :
    LET r == getComputedValue(cell, formulaParser)
    IN /\ op' = "getComputedValue"
       /\ inp' = [cell |-> cell, formulaParser |-> formulaParser]
       /\ out' = r.ret
       /\ parseLog' = r.calls
       /\ pc' = "idle"
       /\ element' = 0
       /\ array' = <<>>

PointRangeMaskCall ==
  /\ Idle
  /\ \E range \in Ranges, bounds \in Ranges :
    Returned("mask", [range |-> range, bounds |-> bounds], PointRangeMask(range, bounds))

NormalizeSelected ==
  /\ Idle
  /\ \E selected \in Selections, data \in ShapeMatrices :
    Returned("normalizeSelected", [selected |-> selected, data |-> data],
             normalizeSelected(selected, data))

\* the caller normalises the selection it got back against the same data
NormalizeSelectedAgain ==
  /\ op = "normalizeSelected"
  /\ Returned("normalizeSelectedAgain",
              [selected |-> out, data |-> inp.data, original |-> inp.selected],
              normalizeSelected(out, inp.data))

GetSelectedPoints ==
  /\ Idle
  /\ \E selected \in Selections :
    Returned("getSelectedPoints", [selected |-> selected], getSelectedPoints(selected))

GetSelectedCSV ==
  /\ Idle
  /\ \E selected \in CsvSelections, data \in CsvMatrices :
    Returned("getSelectedCSV", [selected |-> selected, data |-> data],
             getSelectedCSV(selected, data))

CalculateSpreadsheetSize ==
  /\ Idle
  /\ \E data \in ShapeMatrices, rowLabels \in LabelArrays, columnLabels \in LabelArrays :
    Returned("calculateSpreadsheetSize",
             [data |-> data, rowLabels |-> rowLabels, columnLabels |-> columnLabels],
             calculateSpreadsheetSize(data, rowLabels, columnLabels))

(* range(end, start = 0, step = 1): one loop iteration per step.  The array *)
(* is capped at MaxArrayLen entries; a loop that reaches the cap stays in   *)
(* its loop state.                                                          *)
RangeArgs == (0 - MaxAbs)..MaxAbs

RangeCall ==
  /\ Idle
  /\ \E end \in RangeArgs, start \in RangeArgs, step \in RangeArgs :
    /\ op' = "range"
    /\ inp' = [end |-> end, start |-> start, step |-> step]
    /\ out' = None
    /\ parseLog' = <<>>
    /\ array' = <<>>
    /\ element' = start
    /\ pc' = IF Sign(end - start) = 0 - 1 THEN "descending" ELSE "ascending"

RangeDescend ==
  /\ pc = "descending"
  /\ element > inp.end
  /\ Len(array) < MaxArrayLen
  /\ array' = Append(array, element)
  /\ element' = element - inp.step
  /\ UNCHANGED <<op, inp, out, parseLog, pc>>

RangeAscend ==
  /\ pc = "ascending"
  /\ element < inp.end
  /\ Len(array) < MaxArrayLen
  /\ array' = Append(array, element)
  /\ element' = element + inp.step
  /\ UNCHANGED <<op, inp, out, parseLog, pc>>

RangeReturn ==
  /\ \/ pc = "descending" /\ ~(element > inp.end)
     \/ pc = "ascending" /\ ~(element < inp.end)
  /\ out' = array
  /\ pc' = "done"
  /\ UNCHANGED <<op, inp, parseLog, element, array>>

\* the caller takes the result; the next call starts from the idle state
Return ==
  /\ op /= "init"
  /\ op = "range" => pc = "done"
  /\ op' = "init"
  /\ inp' = None
  /\ out' = None
  /\ parseLog' = <<>>
  /\ pc' = "idle"
  /\ element' = 0
  /\ array' = <<>>

Next ==
  \/ IsActive
  \/ ReadTextFromClipboard
  \/ GetComputedValue
  \/ PointRangeMaskCall
  \/ NormalizeSelected
  \/ NormalizeSelectedAgain
  \/ GetSelectedPoints
  \/ CalculateSpreadsheetSize
  \/ RangeCall
  \/ RangeDescend
  \/ RangeAscend
  \/ RangeReturn
  \/ Return

Spec == Init /\ [][Next]_vars

\* the CSV export alone, over matrices of cells with values
NextCSV == GetSelectedCSV \/ Return

SpecCSV == Init /\ [][NextCSV]_vars

-----------------------------------------------------------------------------
(* Properties *)

\* C1: getComputedValue returns null for an absent cell; for a cell whose
\* value is a string beginning with "=" it calls the parser once, with the
\* text after the marker, and returns what the parser handed back (2 for
\* {result: 2}); for every other cell it returns cell.value and the parser
\* is not called.
C1_Dispatch ==
  op = "getComputedValue" =>
    LET cell == inp.cell
        marked == /\ cell.t = "cell"
                  /\ cell.value.t = "string"
                  /\ cell.value.v /= <<>>
                  /\ cell.value.v[1] = "="
    IN /\ cell.t = "undefined" => (out = Null /\ parseLog = <<>>)
       /\ marked =>
            LET expr == SubSeq(cell.value.v, 2, Len(cell.value.v))
                parsed == inp.formulaParser[expr]
            IN /\ parseLog = <<expr>>
               /\ (out = parsed.result \/ out = parsed.error)
               /\ (parsed = Outcome(Num(2), Undefined) => out = Num(2))
       /\ (cell.t = "cell" /\ ~marked) => (out = cell.value /\ parseLog = <<>>)

C1_Witness ==
  /\ op = "getComputedValue"
  /\ inp.cell = Cell(Str(Text_formula))
  /\ inp.formulaParser[Tail(Text_formula)] = Outcome(Num(2), Undefined)
  /\ parseLog = <<Tail(Text_formula)>>
  /\ out = Num(2)

\* C2: for a formula cell the parser is called once and its outcome is
\* returned verbatim: {result: r} gives r for every string, number or boolean
\* r, and {error: e} gives e for every string e.
C2_Verbatim ==
  (op = "getComputedValue" /\ inp.cell.t = "cell" /\ isFormulaValue(inp.cell.value)) =>
    LET parsed == inp.formulaParser[Tail(inp.cell.value.v)]
    IN /\ Len(parseLog) = 1
       /\ (parsed.error.t = "undefined" /\ parsed.result.t \in {"string", "number", "boolean"})
            => out = parsed.result
       /\ (parsed.result.t = "undefined" /\ parsed.error.t = "string")
            => out = parsed.error

\* C3: getSelectedCSV returns "" for a selection that is not a range; for a
\* range it returns the sliced sub-matrix flattened row-major, "\n" between
\* rows and "\t" between columns, each present cell contributing its raw
\* value and each absent cell an empty field.
C3_RawValues ==
  op = "getSelectedCSV" =>
    IF inp.selected.kind /= "range" THEN out = <<>>
    ELSE LET sliced == MatrixSlice(inp.selected.range.start, inp.selected.range.end, inp.data)
             raw == [p \in DOMAIN sliced |-> sliced[p].value]
         IN out = MatrixJoin(raw)

\* C4: the range normalizeSelected returns for a range selection lies inside
\* getMatrixRange(data) = create(ORIGIN, maxPoint(data)), start <= end.
C4_Contained ==
  (op = "normalizeSelected" /\ inp.selected.kind = "range") =>
    LET bounds == getMatrixRange(inp.data)
        r == out.range
    IN /\ out.kind = "range"
       /\ bounds = [start |-> ORIGIN, end |-> MatrixMaxPoint(inp.data)]
       /\ bounds.start.row <= r.start.row /\ r.start.row <= r.end.row
       /\ r.end.row <= bounds.end.row
       /\ bounds.start.column <= r.start.column /\ r.start.column <= r.end.column
       /\ r.end.column <= bounds.end.column

C4_Witness ==
  /\ op = "normalizeSelected"
  /\ inp.selected.kind = "range"
  /\ DOMAIN inp.data = {}
  /\ inp.selected.range.start.row > 0
  /\ out = RangeSelected([start |-> ORIGIN, end |-> ORIGIN])

\* C5: masking a masked range against the same bounds changes nothing;
\* normalising a normalised selection against the same data changes nothing;
\* a selection that is not a range is returned unchanged every time.
C5_Idempotent ==
  /\ op = "mask" => PointRangeMask(out, inp.bounds) = out
  /\ op = "normalizeSelectedAgain" => out = inp.selected
  /\ (op \in {"normalizeSelected", "normalizeSelectedAgain"} /\ inp.selected.kind /= "range")
       => out = inp.selected

C5_Witness ==
  /\ op = "normalizeSelectedAgain"
  /\ inp.original.kind = "range"
  /\ inp.original /= inp.selected
  /\ inp.selected.range.start /= inp.selected.range.end
  /\ out = inp.selected

\* C6: getSelectedPoints returns [] for a selection that is not a range; for
\* a range it returns each point of the inclusive rectangle exactly once, in
\* row-major order; (0,0)..(1,1) gives (0,0),(0,1),(1,0),(1,1).
C6_RowMajor ==
  op = "getSelectedPoints" =>
    IF inp.selected.kind /= "range" THEN out = <<>>
    ELSE LET r == inp.selected.range
         IN /\ Len(out) = (r.end.row - r.start.row + 1) * (r.end.column - r.start.column + 1)
            /\ \A row \in r.start.row..r.end.row, col \in r.start.column..r.end.column :
                 Cardinality({i \in 1..Len(out) : out[i] = Pt(row, col)}) = 1
            /\ \A i \in 1..Len(out), j \in 1..Len(out) :
                 i < j => \/ out[i].row < out[j].row
                          \/ out[i].row = out[j].row /\ out[i].column < out[j].column
            /\ r = [start |-> ORIGIN, end |-> Pt(1, 1)]
                 => out = <<Pt(0, 0), Pt(0, 1), Pt(1, 0), Pt(1, 1)>>

C6_Witness ==
  /\ op = "getSelectedPoints"
  /\ inp.selected = RangeSelected([start |-> ORIGIN, end |-> Pt(1, 1)])
  /\ out = <<Pt(0, 0), Pt(0, 1), Pt(1, 0), Pt(1, 1)>>

\* C7: calculateSpreadsheetSize returns, per component, the larger of the
\* data size and the length of the label array, or the data size when the
\* label array is omitted; never less than the data size.
C7_Size ==
  op = "calculateSpreadsheetSize" =>
    LET size == MatrixGetSize(inp.data)
    IN /\ out.rows = IF inp.rowLabels.t = "undefined" THEN size.rows
                     ELSE Max(size.rows, Len(inp.rowLabels.v))
       /\ out.columns = IF inp.columnLabels.t = "undefined" THEN size.columns
                        ELSE Max(size.columns, Len(inp.columnLabels.v))
       /\ out.rows >= size.rows
       /\ out.columns >= size.columns

C7_Witness ==
  /\ op = "calculateSpreadsheetSize"
  /\ MatrixGetSize(inp.data) = [rows |-> 2, columns |-> 2]
  /\ inp.rowLabels = Labels(3)
  /\ inp.columnLabels.t = "undefined"
  /\ out = [rows |-> 3, columns |-> 2]

C9_Active ==
  op = "isActive" =>
    LET defined == "row" \in DOMAIN inp.active
    IN /\ out = (/\ defined
                 /\ inp.active.row = inp.point.row
                 /\ inp.active.column = inp.point.column)
       /\ Cardinality({p \in Points : isActive(inp.active, p)}) = IF defined THEN 1 ELSE 0

C9_Witness ==
  /\ op = "isActive"
  /\ inp.active = Pt(1, 2)
  /\ inp.point = Pt(1, 2)
  /\ out = TRUE

\* C10: for all integers end, start and step, range stops after at most
\* |end - start| iterations, its array begins at start when start differs
\* from end, each entry is closer to end than the one before, and no entry is
\* end or beyond it.
C10_Terminates ==
  op = "range" =>
    /\ Len(array) <= Abs(inp.end - inp.start)
    /\ (pc = "done" /\ inp.start /= inp.end) => (array /= <<>> /\ array[1] = inp.start)
    /\ \A i \in 1..Len(array) :
         /\ inp.start <= inp.end => array[i] < inp.end
         /\ inp.start > inp.end => array[i] > inp.end
    /\ \A i \in 1..(Len(array) - 1) :
         Abs(inp.end - array[i + 1]) < Abs(inp.end - array[i])

====
